---- MODULE Spec2Model ----
(***************************************************************************)
(* fs_mgr/fs_mgr_format.cpp: fs_mgr_do_format and fs_mgr_do_resize.        *)
(*                                                                         *)
(* One call runs at a time (the code is single threaded and synchronous).  *)
(* Every system call and every external utility the call makes is one      *)
(* step; its outcome is chosen by the environment and appended to trace.   *)
(*                                                                         *)
(* uint64_t is modelled as an unsigned word of WordBits bits: TLC's        *)
(* integers are 32 bits wide, and every constant of the code (512, 4096,   *)
(* CRYPT_FOOTER_OFFSET, 4096 * 1024) is below 2^WordBits, so each wrap the *)
(* 64-bit arithmetic can take has its image in the model.                  *)
(***************************************************************************)
EXTENDS Integers, Sequences, FiniteSets, TLC

VARIABLES
    pc,             \* position of the call ("idle", "done", or a step)
    op,             \* "format" | "resize" | "none"
    entry,          \* the FstabEntry of the call
    crypt_footer,   \* the bool argument of the call
    props,          \* the system settings at the time of the call
    dev_size,       \* the size BLKGETSIZE64 reports for entry.blk_device
    needs_casefold, \* local of fs_mgr_do_format
    needs_projid,   \* local of fs_mgr_do_format
    dev_sz,         \* local / parameter dev_sz of the format_* / resize_f2fs
    fd,             \* the unique_fd of get_dev_sz / read_f2fs_sb
    sb,             \* struct f2fs_super_block filled by pread
    sb_ok,          \* return value of read_f2fs_sb
    f2fs_sz,        \* local of resize_f2fs
    result,         \* the value returned to the caller of fs_mgr_do_*
    fn,             \* the static function the call is running in
    trace           \* system calls and utilities run by the call, in order

vars == <<pc, op, entry, crypt_footer, props, dev_size, needs_casefold,
          needs_projid, dev_sz, fd, sb, sb_ok, f2fs_sz, result, fn, trace>>

----------------------------------------------------------------------------
(* Widths and constants *)

WordBits == 24

\* the number of values of a uint64_t
UINT64_MOD == 2 ^ WordBits

F2FS_BLKSIZE == 4096

F2FS_SUPER_OFFSET == 1024

\* cryptfs.h: #define CRYPT_FOOTER_OFFSET 0x4000
CRYPT_FOOTER_OFFSET == 16384

\* errno.h
EINVAL == 22

\* linux/magic.h: #define F2FS_SUPER_MAGIC 0xF2F52010; a magic field is
\* written as its eight hexadecimal digits
F2FS_SUPER_MAGIC == "F2F52010"

\* sizeof(struct f2fs_super_block), packed: 4 + 2 + 2 + 6 * 4 + 4 + 8
SizeofSb == 44

----------------------------------------------------------------------------
(* Inputs *)

BlkDevice == "/dev/block/x"

FsTypes == {"ext4", "f2fs", "vfat", "EXT4", "ntfs"}

MountPoints == {"/data", "/data/media", "/cache"}

\* entry.length: 0 (use the device size), one below the crypto footer,
\* one that is 4096 + 4096 * 1024 once the footer is taken off
Lengths == {0, 8192, 4096 + 4096 * 1024 + CRYPT_FOOTER_OFFSET}

\* device sizes: empty, below the footer, the footer itself, the resize
\* threshold for a one-block filesystem, and one that is no multiple of
\* 4096 or 512
DevSizes == {0, 4096, CRYPT_FOOTER_OFFSET, 4096 + 4096 * 1024, 5000001}

Entries ==
    [blk_device : {BlkDevice}, mount_point : MountPoints, fs_type : FsTypes,
     length : Lengths, fs_compress : BOOLEAN, ext_meta_csum : BOOLEAN]

Props == [casefold : BOOLEAN, projid : BOOLEAN]

\* exit statuses logwrap_fork_execvp hands back
ExitCodes == {0, 1, -1}

\* block_count fields found on disk: one block, the largest count whose
\* byte size fits the word, and the first one whose byte size does not
BlockCounts == {1, UINT64_MOD \div F2FS_BLKSIZE - 1, UINT64_MOD \div F2FS_BLKSIZE}

Magics == {F2FS_SUPER_MAGIC, "00000000"}

SbRecords == [magic : Magics, block_count : BlockCounts]

NoSb == [magic |-> "00000000", block_count |-> 0]

NoEntry ==
    [blk_device |-> BlkDevice, mount_point |-> "/cache", fs_type |-> "ntfs",
     length |-> 0, fs_compress |-> FALSE, ext_meta_csum |-> FALSE]

----------------------------------------------------------------------------
(* Pure helpers *)

Digit(d) ==
    CASE d = 0 -> "0" [] d = 1 -> "1" [] d = 2 -> "2" [] d = 3 -> "3"
      [] d = 4 -> "4" [] d = 5 -> "5" [] d = 6 -> "6" [] d = 7 -> "7"
      [] d = 8 -> "8" [] d = 9 -> "9"

RECURSIVE to_string(_)
to_string(n) ==
    IF n < 10 THEN Digit(n) ELSE to_string(n \div 10) \o Digit(n % 10)

\* one entry of trace: the function that made the call, the call, its
\* path or argument vector, its file offset, what it returned, and the
\* record a full pread delivered
Event(by, ev, argv, off, ret, rec) ==
    [by |-> by, ev |-> ev, argv |-> argv, off |-> off, ret |-> ret, rec |-> rec]

\* android::base::GetBoolProperty(name, false) on the settings p
GetBoolProperty(p, name) ==
    CASE name = "external_storage.casefold.enabled" -> p.casefold
      [] name = "external_storage.projid.enabled" -> p.projid
      [] OTHER -> FALSE

\* IsDataMount as a prefix match (StartsWith) in place of equality
IsDataMountPrefix(mount_point) ==
    Len(mount_point) >= 5 /\ SubSeq(mount_point, 1, 5) = "/data"

\* entry.mount_point == "/data"
IsDataMount(mount_point) == mount_point = "/data"

\* FormatDispatch with a comparison that ignores case
FormatDispatchIgnoreCase(fs_type) ==
    IF fs_type \in {"f2fs", "F2FS"} THEN "format_f2fs"
    ELSE IF fs_type \in {"ext4", "EXT4"} THEN "format_ext4"
    ELSE IF fs_type \in {"vfat", "VFAT"} THEN "format_vfat"
    ELSE "unsupported"

\* the if / else-if chain of fs_mgr_do_format
FormatDispatch(fs_type) ==
    IF fs_type = "f2fs" THEN "format_f2fs"
    ELSE IF fs_type = "ext4" THEN "format_ext4"
    ELSE IF fs_type = "vfat" THEN "format_vfat"
    ELSE "unsupported"

\* the if / else of fs_mgr_do_resize
ResizeDispatch(fs_type) ==
    IF fs_type = "f2fs" THEN "resize_f2fs" ELSE "unsupported"

\* UnsupportedRc as return EINVAL; (the sign left out)
UnsupportedRcPositive == EINVAL

\* return -EINVAL; of fs_mgr_do_format and fs_mgr_do_resize
UnsupportedRc == -EINVAL

\* GetDevSzFailed as if (rc > 0): the -1 of get_dev_sz passes for success
GetDevSzFailedPositiveOnly(rc) == rc > 0

\* if (rc) return rc; after get_dev_sz
GetDevSzFailed(rc) == rc # 0

\* Mke2fsFailed as if (rc < 0): an ordinary exit status passes for success
Mke2fsFailedNegativeOnly(rc) == rc < 0

\* if (rc) { ...; return rc; } after mke2fs
Mke2fsFailed(rc) == rc # 0

\* format_ext4: if (crypt_footer) dev_sz -= CRYPT_FOOTER_OFFSET;
\*              size_str = std::to_string(dev_sz / 4096)
ext4_size_str(sz, cf) ==
    LET usable == IF cf THEN (sz - CRYPT_FOOTER_OFFSET) % UINT64_MOD ELSE sz
    IN  to_string(usable \div 4096)

\* f2fs_size_str without the footer statement
f2fs_size_str_keeps_footer(sz, cf) == to_string(sz \div 4096)

\* format_f2fs: the same two statements
f2fs_size_str(sz, cf) ==
    LET usable == IF cf THEN (sz - CRYPT_FOOTER_OFFSET) % UINT64_MOD ELSE sz
    IN  to_string(usable \div 4096)

\* resize_f2fs: if (crypt_footer) dev_sz -= CRYPT_FOOTER_OFFSET;
resize_target(sz, cf) ==
    IF cf THEN (sz - CRYPT_FOOTER_OFFSET) % UINT64_MOD ELSE sz

mke2fs_args(blkdev, size_str, projid, metadata_csum) ==
    <<"/system/bin/mke2fs", "-t", "ext4", "-b", "4096">>
    \o (IF projid THEN <<"-I", "512">> ELSE <<>>)
    \o (IF metadata_csum
        THEN <<"-O", "metadata_csum", "-O", "64bit", "-O", "extent">>
        ELSE <<>>)
    \o <<blkdev, size_str>>

e2fsdroid_args(mnt_point, blkdev) ==
    <<"/system/bin/e2fsdroid", "-e", "-a", mnt_point, blkdev>>

make_f2fs_args(blkdev, size_str, projid, casefold, compress) ==
    <<"/system/bin/make_f2fs", "-g", "android">>
    \o (IF projid THEN <<"-O", "project_quota,extra_attr">> ELSE <<>>)
    \o (IF casefold THEN <<"-O", "casefold", "-C", "utf8">> ELSE <<>>)
    \o (IF compress THEN <<"-O", "compression", "-O", "extra_attr">> ELSE <<>>)
    \o <<blkdev, size_str>>

newfs_msdos_args(blkdev) ==
    <<"/system/bin/newfs_msdos", "-O", "android", blkdev>>

\* resize_f2fs_args counting 4096-byte blocks in place of 512-byte sectors
resize_f2fs_args_in_blocks(blkdev, sz) ==
    <<"/system/bin/resize.f2fs", "-t", to_string(sz \div 4096), blkdev>>

resize_f2fs_args(blkdev, sz) ==
    <<"/system/bin/resize.f2fs", "-t", to_string(sz \div 512), blkdev>>

\* pread(...) != sizeof(*sb) is false
FullRead(ret) == ret = SizeofSb

\* sb->magic == cpu_to_le32(F2FS_SUPER_MAGIC)
MagicOk(s) == s.magic = F2FS_SUPER_MAGIC

\* sb.block_count * F2FS_BLKSIZE in uint64_t, or 0
get_f2fs_size(ok, s) ==
    IF ok THEN (s.block_count * F2FS_BLKSIZE) % UINT64_MOD ELSE 0

\* f2fs_sz <= 0 || dev_sz <= f2fs_sz + 4096 * 1024, in uint64_t
NoNeedResize(sz, cur) ==
    cur <= 0 \/ sz <= (cur + 4096 * 1024) % UINT64_MOD

----------------------------------------------------------------------------
(* State machine *)

Init ==
    /\ pc = "idle"
    /\ op = "none"
    /\ entry = NoEntry
    /\ crypt_footer = FALSE
    /\ props = [casefold |-> FALSE, projid |-> FALSE]
    /\ dev_size = 4096
    /\ needs_casefold = FALSE
    /\ needs_projid = FALSE
    /\ dev_sz = 0
    /\ fd = -1
    /\ sb = NoSb
    /\ sb_ok = FALSE
    /\ f2fs_sz = 0
    /\ result = 0
    /\ fn = "none"
    /\ trace = <<>>

\* a call: the arguments and the environment it runs in (one call per
\* behaviour; a call keeps no state for the next one)
Begin(o, e, cf, p, d) ==
    /\ op' = o
    /\ entry' = e
    /\ crypt_footer' = cf
    /\ props' = p
    /\ dev_size' = d
    /\ fd' = -1
    /\ sb' = NoSb
    /\ sb_ok' = FALSE
    /\ f2fs_sz' = 0
    /\ trace' = <<>>

Return(v) == pc' = "done" /\ result' = v

\* where the caller of get_dev_sz goes on after it returned 0
AfterGetDevSz ==
    CASE fn = "format_ext4" -> "mke2fs"
      [] fn = "format_f2fs" -> "make_f2fs"
      [] OTHER -> "resize_f2fs_target"

fs_mgr_do_format ==
    /\ pc = "idle"
    /\ \E e \in Entries, cf \in BOOLEAN, p \in Props, d \in DevSizes :
        LET data == IsDataMount(e.mount_point)
            to   == FormatDispatch(e.fs_type)
        IN  /\ Begin("format", e, cf, p, d)
            /\ needs_casefold' =
                   (data /\ GetBoolProperty(p, "external_storage.casefold.enabled"))
            /\ needs_projid' =
                   (data /\ GetBoolProperty(p, "external_storage.projid.enabled"))
            /\ fn' = to
            /\ CASE to = "format_f2fs" ->
                      \* format_f2fs(..., entry.length, ...): if (!dev_sz) get_dev_sz
                      /\ dev_sz' = e.length
                      /\ pc' = IF e.length = 0 THEN "get_dev_sz_open" ELSE "make_f2fs"
                      /\ result' = 0
                 [] to = "format_ext4" ->
                      /\ dev_sz' = 0
                      /\ pc' = "get_dev_sz_open"
                      /\ result' = 0
                 [] to = "format_vfat" ->
                      /\ dev_sz' = 0
                      /\ pc' = "format_vfat_access"
                      /\ result' = 0
                 [] OTHER ->
                      /\ dev_sz' = 0
                      /\ Return(UnsupportedRc)

fs_mgr_do_resize ==
    /\ pc = "idle"
    /\ \E e \in Entries, cf \in BOOLEAN, p \in Props, d \in DevSizes :
        LET to == ResizeDispatch(e.fs_type)
        IN  /\ Begin("resize", e, cf, p, d)
            /\ needs_casefold' = FALSE
            /\ needs_projid' = FALSE
            /\ fn' = to
            /\ IF to = "resize_f2fs"
               THEN \* resize_f2fs(..., entry.length, ...): if (!dev_sz) get_dev_sz
                    /\ dev_sz' = e.length
                    /\ pc' = IF e.length = 0 THEN "get_dev_sz_open"
                                             ELSE "resize_f2fs_target"
                    /\ result' = 0
               ELSE /\ dev_sz' = 0
                    /\ Return(UnsupportedRc)

\* get_dev_sz: open(fs_blkdev, O_RDONLY | O_CLOEXEC); fd < 0 returns -1
\* (TEMP_FAILURE_RETRY repeats the system call on EINTR inside this step)
get_dev_sz_open ==
    /\ pc = "get_dev_sz_open"
    /\ \E f \in {-1, 3} :
        /\ fd' = f
        /\ trace' = Append(trace, Event("get_dev_sz", "open", <<entry.blk_device>>, 0, f, NoSb))
        /\ IF f < 0
           THEN IF GetDevSzFailed(-1)
                THEN Return(-1)
                ELSE pc' = AfterGetDevSz /\ UNCHANGED result
           ELSE pc' = "get_dev_sz_ioctl" /\ UNCHANGED result
    /\ UNCHANGED <<op, entry, crypt_footer, props, dev_size, needs_casefold,
                   needs_projid, dev_sz, sb, sb_ok, f2fs_sz, fn>>

\* get_dev_sz: ioctl(fd, BLKGETSIZE64, dev_sz); -1 returns -1, else 0
get_dev_sz_ioctl ==
    /\ pc = "get_dev_sz_ioctl"
    /\ \E r \in {-1, 0} :
        /\ trace' = Append(trace, Event("get_dev_sz", "ioctl", <<entry.blk_device>>, 0, r, NoSb))
        /\ dev_sz' = IF r = 0 THEN dev_size ELSE dev_sz
        /\ LET rc == IF r = -1 THEN -1 ELSE 0
           IN  IF GetDevSzFailed(rc)
               THEN Return(rc)
               ELSE pc' = AfterGetDevSz /\ UNCHANGED result
    /\ fd' = -1
    /\ UNCHANGED <<op, entry, crypt_footer, props, dev_size, needs_casefold,
                   needs_projid, sb, sb_ok, f2fs_sz, fn>>

\* format_ext4: build mke2fs_args and run mke2fs
format_ext4_mke2fs ==
    /\ pc = "mke2fs"
    /\ \E rc \in ExitCodes :
        /\ trace' = Append(trace,
               Event("format_ext4", "exec",
                     mke2fs_args(entry.blk_device, ext4_size_str(dev_sz, crypt_footer),
                                 needs_projid, entry.ext_meta_csum),
                     0, rc, NoSb))
        /\ IF Mke2fsFailed(rc)
           THEN Return(rc)
           ELSE pc' = "e2fsdroid" /\ UNCHANGED result
    /\ UNCHANGED <<op, entry, crypt_footer, props, dev_size, needs_casefold,
                   needs_projid, dev_sz, fd, sb, sb_ok, f2fs_sz, fn>>

\* format_ext4: run e2fsdroid and return its result
format_ext4_e2fsdroid ==
    /\ pc = "e2fsdroid"
    /\ \E rc \in ExitCodes :
        /\ trace' = Append(trace,
               Event("format_ext4", "exec",
                     e2fsdroid_args(entry.mount_point, entry.blk_device), 0, rc, NoSb))
        /\ Return(rc)
    /\ UNCHANGED <<op, entry, crypt_footer, props, dev_size, needs_casefold,
                   needs_projid, dev_sz, fd, sb, sb_ok, f2fs_sz, fn>>

\* format_f2fs: build args and run make_f2fs
format_f2fs_make_f2fs ==
    /\ pc = "make_f2fs"
    /\ \E rc \in ExitCodes :
        /\ trace' = Append(trace,
               Event("format_f2fs", "exec",
                     make_f2fs_args(entry.blk_device, f2fs_size_str(dev_sz, crypt_footer),
                                    needs_projid, needs_casefold, entry.fs_compress),
                     0, rc, NoSb))
        /\ Return(rc)
    /\ UNCHANGED <<op, entry, crypt_footer, props, dev_size, needs_casefold,
                   needs_projid, dev_sz, fd, sb, sb_ok, f2fs_sz, fn>>

\* format_vfat: access("/system/bin/newfs_msdos", X_OK), logged only
format_vfat_access ==
    /\ pc = "format_vfat_access"
    /\ \E r \in {-1, 0} :
        trace' = Append(trace,
            Event("format_vfat", "access", <<"/system/bin/newfs_msdos">>, 0, r, NoSb))
    /\ pc' = "newfs_msdos"
    /\ UNCHANGED <<op, entry, crypt_footer, props, dev_size, needs_casefold,
                   needs_projid, dev_sz, fd, sb, sb_ok, f2fs_sz, result, fn>>

\* format_vfat: run newfs_msdos
format_vfat_newfs_msdos ==
    /\ pc = "newfs_msdos"
    /\ \E rc \in ExitCodes :
        /\ trace' = Append(trace,
               Event("format_vfat", "exec", newfs_msdos_args(entry.blk_device), 0, rc, NoSb))
        /\ Return(rc)
    /\ UNCHANGED <<op, entry, crypt_footer, props, dev_size, needs_casefold,
                   needs_projid, dev_sz, fd, sb, sb_ok, f2fs_sz, fn>>

\* resize_f2fs: if (crypt_footer) dev_sz -= CRYPT_FOOTER_OFFSET;
resize_f2fs_target ==
    /\ pc = "resize_f2fs_target"
    /\ dev_sz' = resize_target(dev_sz, crypt_footer)
    /\ pc' = "read_f2fs_sb_open"
    /\ UNCHANGED <<op, entry, crypt_footer, props, dev_size, needs_casefold,
                   needs_projid, fd, sb, sb_ok, f2fs_sz, result, fn, trace>>

\* read_f2fs_sb: open(blk_device, O_RDONLY | O_CLOEXEC), the result unchecked
read_f2fs_sb_open ==
    /\ pc = "read_f2fs_sb_open"
    /\ \E f \in {-1, 3} :
        /\ fd' = f
        /\ trace' = Append(trace,
               Event("read_f2fs_sb", "open", <<entry.blk_device>>, 0, f, NoSb))
    /\ pc' = "read_f2fs_sb_primary"
    /\ UNCHANGED <<op, entry, crypt_footer, props, dev_size, needs_casefold,
                   needs_projid, dev_sz, sb, sb_ok, f2fs_sz, result, fn>>

\* what one pread of sizeof(*sb) bytes can give: an error, a short read, or
\* a full record; on a bad descriptor only the error
PreadOutcomes ==
    IF fd < 0
    THEN {[ret |-> -1, rec |-> sb]}
    ELSE {[ret |-> r, rec |-> sb] : r \in {-1, 20}}
         \cup {[ret |-> SizeofSb, rec |-> s] : s \in SbRecords}

\* read_f2fs_sb: pread at F2FS_SUPER_OFFSET
read_f2fs_sb_primary ==
    /\ pc = "read_f2fs_sb_primary"
    /\ \E o \in PreadOutcomes :
        /\ trace' = Append(trace,
               Event("read_f2fs_sb", "pread", <<entry.blk_device>>, F2FS_SUPER_OFFSET,
                     o.ret, o.rec))
        /\ sb' = o.rec
        /\ IF ~FullRead(o.ret)
           THEN sb_ok' = FALSE /\ pc' = "resize_f2fs_decide"
           ELSE IF MagicOk(o.rec)
                THEN sb_ok' = TRUE /\ pc' = "resize_f2fs_decide"
                ELSE sb_ok' = FALSE /\ pc' = "read_f2fs_sb_backup"
    /\ UNCHANGED <<op, entry, crypt_footer, props, dev_size, needs_casefold,
                   needs_projid, dev_sz, fd, f2fs_sz, result, fn>>

\* read_f2fs_sb: pread at F2FS_BLKSIZE + F2FS_SUPER_OFFSET
read_f2fs_sb_backup ==
    /\ pc = "read_f2fs_sb_backup"
    /\ \E o \in PreadOutcomes :
        /\ trace' = Append(trace,
               Event("read_f2fs_sb", "pread", <<entry.blk_device>>,
                     F2FS_BLKSIZE + F2FS_SUPER_OFFSET, o.ret, o.rec))
        /\ sb' = o.rec
        /\ sb_ok' = (FullRead(o.ret) /\ MagicOk(o.rec))
    /\ pc' = "resize_f2fs_decide"
    /\ UNCHANGED <<op, entry, crypt_footer, props, dev_size, needs_casefold,
                   needs_projid, dev_sz, fd, f2fs_sz, result, fn>>

\* resize_f2fs: f2fs_sz = get_f2fs_size(...); "no need resize" returns 0
resize_f2fs_decide ==
    /\ pc = "resize_f2fs_decide"
    /\ f2fs_sz' = get_f2fs_size(sb_ok, sb)
    /\ IF NoNeedResize(dev_sz, f2fs_sz')
       THEN Return(0)
       ELSE pc' = "resize_f2fs_exec" /\ UNCHANGED result
    /\ fd' = -1
    /\ UNCHANGED <<op, entry, crypt_footer, props, dev_size, needs_casefold,
                   needs_projid, dev_sz, sb, sb_ok, fn, trace>>

\* resize_f2fs: run resize.f2fs -t <sectors> <device>
resize_f2fs_exec ==
    /\ pc = "resize_f2fs_exec"
    /\ \E rc \in ExitCodes :
        /\ trace' = Append(trace,
               Event("resize_f2fs", "exec", resize_f2fs_args(entry.blk_device, dev_sz),
                     0, rc, NoSb))
        /\ Return(rc)
    /\ UNCHANGED <<op, entry, crypt_footer, props, dev_size, needs_casefold,
                   needs_projid, dev_sz, fd, sb, sb_ok, f2fs_sz, fn>>

Next ==
    \/ fs_mgr_do_format
    \/ fs_mgr_do_resize
    \/ get_dev_sz_open
    \/ get_dev_sz_ioctl
    \/ format_ext4_mke2fs
    \/ format_ext4_e2fsdroid
    \/ format_f2fs_make_f2fs
    \/ format_vfat_access
    \/ format_vfat_newfs_msdos
    \/ resize_f2fs_target
    \/ read_f2fs_sb_open
    \/ read_f2fs_sb_primary
    \/ read_f2fs_sb_backup
    \/ resize_f2fs_decide
    \/ resize_f2fs_exec

Spec == Init /\ [][Next]_vars

----------------------------------------------------------------------------
(* Vocabulary of the properties *)

Last(a) == a[Len(a)]

\* the value of one decimal digit character, -1 for any other character
DigitValue(c) ==
    CASE c = "0" -> 0 [] c = "1" -> 1 [] c = "2" -> 2 [] c = "3" -> 3
      [] c = "4" -> 4 [] c = "5" -> 5 [] c = "6" -> 6 [] c = "7" -> 7
      [] c = "8" -> 8 [] c = "9" -> 9 [] OTHER -> -1

\* str is a decimal numeral: digits only, no leading zero but for "0"
IsDecimal(str) ==
    /\ Len(str) >= 1
    /\ \A i \in 1..Len(str) : DigitValue(SubSeq(str, i, i)) >= 0
    /\ Len(str) > 1 => SubSeq(str, 1, 1) # "0"

\* the number a decimal numeral denotes
RECURSIVE DecimalValue(_)
DecimalValue(str) ==
    IF Len(str) = 0 THEN 0
    ELSE 10 * DecimalValue(SubSeq(str, 1, Len(str) - 1))
         + DigitValue(SubSeq(str, Len(str), Len(str)))

\* a contains s as a run of consecutive elements
HasRun(a, s) ==
    \E i \in 0..(Len(a) - Len(s)) : SubSeq(a, i + 1, i + Len(s)) = s

\* a contains the element x
Has(a, x) == \E i \in 1..Len(a) : a[i] = x

\* the positions of trace at which the utility bin was run
RunsOf(bin) == {i \in 1..Len(trace) : trace[i].ev = "exec" /\ trace[i].argv[1] = bin}

AllRuns == {i \in 1..Len(trace) : trace[i].ev = "exec"}

\* the positions of trace made by function f with call ev
CallsOf(f, ev) == {i \in 1..Len(trace) : trace[i].by = f /\ trace[i].ev = ev}

\* the crypto footer as the number of bytes the call is asked to leave out
FooterBytes == IF crypt_footer THEN CRYPT_FOOTER_OFFSET ELSE 0

\* the size a call starts from: the declared length, or the device size
DeclaredOrDevice == IF entry.length # 0 THEN entry.length ELSE dev_size

----------------------------------------------------------------------------
(* C1 *)

\* C1: whenever mke2fs runs, or make_f2fs runs for an entry of declared
\* length 0, its last argument is the decimal numeral of
\* (D - footer) / 4096, the subtraction being the one of the integers
\* (also when the device is smaller than the footer).
C1_BlockCountIsQuotientOfUsableSize ==
    \A i \in RunsOf("/system/bin/mke2fs") \cup RunsOf("/system/bin/make_f2fs") :
        (fn = "format_ext4" \/ entry.length = 0)
        => /\ IsDecimal(Last(trace[i].argv))
           /\ DecimalValue(Last(trace[i].argv)) = (dev_size - FooterBytes) \div 4096

----------------------------------------------------------------------------
(* C2 *)

\* the resize call has compared the two sizes (f2fs_sz is the size
\* get_f2fs_size reported)
ResizeDecided == fn = "resize_f2fs" /\ pc \in {"resize_f2fs_exec", "done"}
                 /\ CallsOf("read_f2fs_sb", "pread") # {}

\* C2: once the target T = (declared length, else device size) - footer and
\* the current size are known, if the current size is reported as 0 or T
\* does not exceed the current size plus 4096 * 1024, resize.f2fs is never
\* run and the call returns 0.
C2_NoResizeWithinSlack ==
    (ResizeDecided
     /\ (f2fs_sz = 0 \/ DeclaredOrDevice - FooterBytes <= f2fs_sz + 4096 * 1024))
    => /\ pc = "done"
       /\ result = 0
       /\ RunsOf("/system/bin/resize.f2fs") = {}

----------------------------------------------------------------------------
(* C3 *)

\* get_dev_sz could not open the device or could not query its size
DevSzFailure ==
    \E i \in CallsOf("get_dev_sz", "open") \cup CallsOf("get_dev_sz", "ioctl") :
        trace[i].ret < 0

\* read_f2fs_sb could not open the device
SbOpenFailure == \E i \in CallsOf("read_f2fs_sb", "open") : trace[i].ret < 0

UnsupportedType ==
    \/ op = "format" /\ entry.fs_type \notin {"ext4", "f2fs", "vfat"}
    \/ op = "resize" /\ entry.fs_type # "f2fs"

UtilityFailure == \E i \in AllRuns : trace[i].ret # 0

\* no step is made twice in one call
NothingRetried ==
    /\ \A i, j \in AllRuns : trace[i].argv[1] = trace[j].argv[1] => i = j
    /\ Cardinality(CallsOf("get_dev_sz", "open")) <= 1
    /\ Cardinality(CallsOf("get_dev_sz", "ioctl")) <= 1
    /\ Cardinality(CallsOf("read_f2fs_sb", "open")) <= 1
    /\ \A i, j \in CallsOf("read_f2fs_sb", "pread") :
           trace[i].off = trace[j].off => i = j

\* C3 as stated: every failure (open, size query, unsupported type, utility
\* exiting non-zero) yields a negative result, 0 only on success, no retry.
C3_EveryFailureIsNegative ==
    /\ NothingRetried
    /\ pc = "done" =>
        /\ (DevSzFailure \/ SbOpenFailure \/ UnsupportedType \/ UtilityFailure)
           => result < 0
        /\ result = 0
           => ~(DevSzFailure \/ SbOpenFailure \/ UnsupportedType \/ UtilityFailure)

\* C3 amended: a failure of get_dev_sz (open or size query) returns -1 and an
\* unsupported type returns -EINVAL; a utility that exits non-zero ends the
\* call, which returns that status unchanged (non-zero, not necessarily
\* negative); 0 is returned only if none of these happened (a superblock
\* that cannot be opened or read is "nothing to resize" and returns 0);
\* nothing is retried.
C3_FailuresAreReported ==
    /\ NothingRetried
    /\ pc = "done" =>
        /\ DevSzFailure => result = -1
        /\ UnsupportedType => result = -EINVAL
        /\ \A i \in AllRuns :
               trace[i].ret # 0 => i = Len(trace) /\ result = trace[i].ret
        /\ result = 0 => ~(DevSzFailure \/ UnsupportedType \/ UtilityFailure)
        /\ (SbOpenFailure /\ ~DevSzFailure) => result = 0 /\ AllRuns = {}

\* a utility failed with a positive exit status and the call returned it
C3_Witness ==
    /\ pc = "done"
    /\ \E i \in AllRuns : trace[i].ret > 0 /\ result = trace[i].ret

----------------------------------------------------------------------------
(* C4 *)

\* C4: a format of a type other than exactly ext4, f2fs, vfat, and a resize
\* of a type other than exactly f2fs, returns -EINVAL at once: no process
\* is run and the block device is not opened.
C4_UnsupportedTypeIsEinval ==
    UnsupportedType => pc = "done" /\ result = -EINVAL /\ trace = <<>>

\* a format of "EXT4" was refused
C4_Witness ==
    /\ pc = "done"
    /\ result = -EINVAL
    /\ op = "format"
    /\ entry.fs_type = "EXT4"

----------------------------------------------------------------------------
(* C5 *)

Primary == CallsOf("read_f2fs_sb", "pread") \cap
           {i \in 1..Len(trace) : trace[i].off = 1024}

Backup == CallsOf("read_f2fs_sb", "pread") \cap
          {i \in 1..Len(trace) : trace[i].off = 4096 + 1024}

FullValid(i) == trace[i].ret = SizeofSb /\ trace[i].rec.magic = F2FS_SUPER_MAGIC

FullInvalid(i) == trace[i].ret = SizeofSb /\ trace[i].rec.magic # F2FS_SUPER_MAGIC

\* C5: a full primary record with the magic gives block_count * 4096 and
\* the backup is not read; a full primary record without the magic and a
\* full backup record with it gives the backup's block_count * 4096; in
\* every other case the size is 0, and a short primary read is not
\* followed by a read of the backup.
C5_SuperblockSelection ==
    ResizeDecided =>
        \A p \in Primary :
            /\ FullValid(p) =>
                   f2fs_sz = trace[p].rec.block_count * 4096 /\ Backup = {}
            /\ FullInvalid(p) =>
                   \A b \in Backup :
                       IF FullValid(b)
                       THEN f2fs_sz = trace[b].rec.block_count * 4096
                       ELSE f2fs_sz = 0
            /\ (~FullValid(p) /\ ~FullInvalid(p)) => f2fs_sz = 0 /\ Backup = {}

----------------------------------------------------------------------------
(* C6 *)

\* C6: in a format of ext4, e2fsdroid runs only after mke2fs ran and
\* returned 0; a non-zero mke2fs status ends the call with that status and
\* without e2fsdroid; after a zero status e2fsdroid runs exactly once, on
\* the entry's mount point and block device, and its status is the result.
C6_Ext4Ordering ==
    fn = "format_ext4" =>
        /\ Cardinality(RunsOf("/system/bin/mke2fs")) <= 1
        /\ \A j \in RunsOf("/system/bin/e2fsdroid") :
               \E i \in RunsOf("/system/bin/mke2fs") : i < j /\ trace[i].ret = 0
        /\ pc = "done" =>
            \A i \in RunsOf("/system/bin/mke2fs") :
                IF trace[i].ret # 0
                THEN /\ RunsOf("/system/bin/e2fsdroid") = {}
                     /\ result = trace[i].ret
                ELSE /\ Cardinality(RunsOf("/system/bin/e2fsdroid")) = 1
                     /\ \A j \in RunsOf("/system/bin/e2fsdroid") :
                            /\ trace[j].argv = <<"/system/bin/e2fsdroid", "-e", "-a",
                                                 entry.mount_point, entry.blk_device>>
                            /\ result = trace[j].ret

\* mke2fs returned 0 and e2fsdroid failed: the call reports e2fsdroid
C6_Witness ==
    /\ pc = "done"
    /\ fn = "format_ext4"
    /\ \E i \in RunsOf("/system/bin/mke2fs") : trace[i].ret = 0
    /\ \E j \in RunsOf("/system/bin/e2fsdroid") : trace[j].ret # 0 /\ result = trace[j].ret

----------------------------------------------------------------------------
(* C7 *)

\* the options of an argument vector: all but the utility, and all but the
\* n trailing positional arguments
Options(a, n) == SubSeq(a, 2, Len(a) - n)

ProjidRequested == entry.mount_point = "/data" /\ props.projid

CasefoldRequested == entry.mount_point = "/data" /\ props.casefold

\* C7: a feature's options are in the argument vector exactly when the
\* feature is asked for: for mke2fs "-I 512" (project ID) and
\* "-O metadata_csum -O 64bit -O extent" (metadata checksum); for make_f2fs
\* "-O project_quota,extra_attr", "-O casefold -C utf8" and
\* "-O compression -O extra_attr"; none for newfs_msdos. Project ID and
\* case folding are asked for only on the mount point "/data" with the
\* system setting true.
C7_FeatureOptionsIffRequested ==
    /\ \A i \in RunsOf("/system/bin/mke2fs") :
        LET o == Options(trace[i].argv, 2) IN
        /\ IF ProjidRequested THEN HasRun(o, <<"-I", "512">>)
                              ELSE ~Has(o, "-I") /\ ~Has(o, "512")
        /\ IF entry.ext_meta_csum
           THEN HasRun(o, <<"-O", "metadata_csum", "-O", "64bit", "-O", "extent">>)
           ELSE ~Has(o, "-O") /\ ~Has(o, "metadata_csum")
                /\ ~Has(o, "64bit") /\ ~Has(o, "extent")
    /\ \A i \in RunsOf("/system/bin/make_f2fs") :
        LET o == Options(trace[i].argv, 2) IN
        /\ IF ProjidRequested THEN HasRun(o, <<"-O", "project_quota,extra_attr">>)
                              ELSE ~Has(o, "project_quota,extra_attr")
        /\ IF CasefoldRequested THEN HasRun(o, <<"-O", "casefold", "-C", "utf8">>)
                                ELSE ~Has(o, "casefold") /\ ~Has(o, "-C")
                                     /\ ~Has(o, "utf8")
        /\ IF entry.fs_compress
           THEN HasRun(o, <<"-O", "compression", "-O", "extra_attr">>)
           ELSE ~Has(o, "compression") /\ ~Has(o, "extra_attr")
        /\ (~ProjidRequested /\ ~CasefoldRequested /\ ~entry.fs_compress)
           => ~Has(o, "-O")
    /\ \A i \in RunsOf("/system/bin/newfs_msdos") :
        trace[i].argv = <<"/system/bin/newfs_msdos", "-O", "android", entry.blk_device>>

\* make_f2fs ran for an entry below "/data" but not on it, with both system
\* settings true and compression set
C7_Witness ==
    /\ entry.mount_point = "/data/media"
    /\ props.projid /\ props.casefold
    /\ entry.fs_compress
    /\ RunsOf("/system/bin/make_f2fs") # {}

----------------------------------------------------------------------------
(* C8 *)

\* C8: in a resize of f2fs with a valid superblock of size S > 0 and target
\* T = (declared length, else device size) - footer, T > S + 4096 * 1024,
\* resize.f2fs runs exactly once, with "-t", the decimal numeral of T / 512
\* and the device path, and its status is the result; the device size is
\* queried only if the declared length is 0.
C8_ResizeInvocation ==
    fn = "resize_f2fs" =>
        /\ (CallsOf("get_dev_sz", "open") # {} \/ CallsOf("get_dev_sz", "ioctl") # {})
           => entry.length = 0
        /\ (pc = "done" /\ ResizeDecided /\ sb_ok /\ f2fs_sz > 0
            /\ DeclaredOrDevice - FooterBytes > f2fs_sz + 4096 * 1024)
           => /\ Cardinality(RunsOf("/system/bin/resize.f2fs")) = 1
              /\ Cardinality(AllRuns) = 1
              /\ \A i \in RunsOf("/system/bin/resize.f2fs") :
                     LET a == trace[i].argv IN
                     /\ Len(a) = 4
                     /\ a[2] = "-t"
                     /\ IsDecimal(a[3])
                     /\ DecimalValue(a[3]) = (DeclaredOrDevice - FooterBytes) \div 512
                     /\ a[4] = entry.blk_device
                     /\ result = trace[i].ret

\* resize.f2fs ran on the queried size of a device with a crypto footer and
\* exited non-zero
C8_Witness ==
    /\ pc = "done"
    /\ fn = "resize_f2fs"
    /\ entry.length = 0
    /\ crypt_footer
    /\ \E i \in RunsOf("/system/bin/resize.f2fs") : trace[i].ret = 1 /\ result = 1
    /\ DeclaredOrDevice - FooterBytes > f2fs_sz + 4096 * 1024

----------------------------------------------------------------------------
(* C9 *)

\* C9 as stated: for any declared length, the block count handed to
\* make_f2fs is the one mke2fs is handed for the same device and footer
\* flag.
C9_F2fsBlockCountAsExt4 ==
    \A i \in RunsOf("/system/bin/make_f2fs") :
        Last(trace[i].argv) = ext4_size_str(dev_size, crypt_footer)

\* C9 amended: for a declared length of 0, the block count handed to
\* make_f2fs is the one mke2fs is handed for the same device and footer
\* flag; a non-zero declared length takes the place of the device size in
\* the f2fs path only.
C9_F2fsBlockCountAsExt4WhenLengthZero ==
    \A i \in RunsOf("/system/bin/make_f2fs") :
        IF entry.length = 0
        THEN Last(trace[i].argv) = ext4_size_str(dev_size, crypt_footer)
        ELSE Last(trace[i].argv) = ext4_size_str(entry.length, crypt_footer)

\* make_f2fs ran for a declared length of 0 on a device with a crypto footer
C9_Witness ==
    /\ entry.length = 0
    /\ crypt_footer
    /\ dev_size > CRYPT_FOOTER_OFFSET
    /\ RunsOf("/system/bin/make_f2fs") # {}

----------------------------------------------------------------------------
(* C10 *)

\* the call needs the size of the device
NeedsDevSz ==
    \/ fn = "format_ext4"
    \/ fn \in {"format_f2fs", "resize_f2fs"} /\ entry.length = 0

\* C10: if get_dev_sz fails, the call returns -1, runs no utility and does
\* not read the superblock; every run of mke2fs, make_f2fs or resize.f2fs
\* comes after a successful size query of the same call, or the declared
\* length is not 0.
C10_NoUtilityOnUnsizedDevice ==
    /\ DevSzFailure =>
        /\ pc = "done"
        /\ result = -1
        /\ AllRuns = {}
        /\ CallsOf("read_f2fs_sb", "open") = {}
        /\ CallsOf("read_f2fs_sb", "pread") = {}
    /\ \A i \in RunsOf("/system/bin/mke2fs") \cup RunsOf("/system/bin/make_f2fs")
                \cup RunsOf("/system/bin/resize.f2fs") :
        IF NeedsDevSz
        THEN \E j \in CallsOf("get_dev_sz", "ioctl") : j < i /\ trace[j].ret = 0
        ELSE entry.length # 0

\* the size query of a resize failed after the device was opened
C10_Witness ==
    /\ pc = "done"
    /\ fn = "resize_f2fs"
    /\ result = -1
    /\ \E j \in CallsOf("get_dev_sz", "ioctl") : trace[j].ret = -1

====
